---- MODULE Spec2Model ----
(***************************************************************************)
(* State-machine model of the invoice dashboard's server side:             *)
(*   - the route guard (authConfig.callbacks.authorized),                  *)
(*   - the credentials provider (authorize / getUser) and the sign-in      *)
(*     action (authenticate),                                              *)
(*   - the invoice mutation actions (createInvoice, updateInvoice,         *)
(*     deleteInvoice) and the SQL statements they issue.                   *)
(*                                                                         *)
(* Every async handler is cut at its awaits: the code from the entry to    *)
(* the first awaited store statement is one action, the store executing    *)
(* the statement is one action, the code after the await is one action.    *)
(*                                                                         *)
(* Numbers.  A JavaScript number is modelled as an exact decimal           *)
(* [nan, n, d] standing for n/d with d a power of ten (fixed point, no     *)
(* binary rounding).  An optional value (FormData.get may return null) is  *)
(* a sequence of length at most one: <<>> is null, <<s>> is the string s.  *)
(***************************************************************************)
EXTENDS Integers, Sequences, FiniteSets, TLC

VARIABLES
    invoices,   \* the invoices table: a set of rows
    nextId,     \* the identifier the store gives the next inserted row
    calls,      \* the number of invocations received so far
    now,        \* the wall clock, in half days
    req,        \* req[r]: the server-action invocation running in slot r
    session,    \* the session next-auth holds: <<>> or <<user id>>
    nav         \* the route guard's last evaluation: its inputs and decision

vars == <<invoices, nextId, calls, now, req, session, nav>>

---------------------------------------------------------------------------
(* Bounds of the model *)

MaxId == 2
MaxClock == 2
MaxInflight == 2
MaxCalls == 3

(* Program constants *)

MinPasswordLen == 6

Slots == 1..MaxInflight

Null == <<>>
Some(s) == <<s>>

---------------------------------------------------------------------------
(* Route guard: src/unnamed/part_000 *)

\* String.prototype.startsWith
StartsWith(s, prefix) ==
    /\ Len(s) >= Len(prefix)
    /\ SubSeq(s, 1, Len(prefix)) = prefix

\* !!auth?.user
IsLoggedIn(auth) == auth # Null

Allow == [kind |-> "true", location |-> ""]
Deny == [kind |-> "false", location |-> ""]
RedirectTo(loc) == [kind |-> "redirect", location |-> loc]

AuthorizedLeaky(auth, pathname) ==
    IF StartsWith(pathname, "/dashboard")
    THEN Allow
    ELSE IF IsLoggedIn(auth) THEN RedirectTo("/dashboard") ELSE Allow

\* authorized({ auth, request: { nextUrl } })
Authorized(auth, pathname) ==
    LET isLoggedIn == IsLoggedIn(auth)
        isOnDashboard == StartsWith(pathname, "/dashboard")
    IN  IF isOnDashboard
        THEN IF isLoggedIn THEN Allow ELSE Deny
        ELSE IF isLoggedIn THEN RedirectTo("/dashboard") ELSE Allow

Paths == {"/", "/login", "/dashboard", "/dashboard/invoices",
          "/dashboard/invoices/1/edit", "/dash", "/dashboards", "/x/dashboard"}

---------------------------------------------------------------------------
(* Number(value) as z.coerce.number() applies it: src/app/lib/actions.ts:21 *)

Char(s, i) == SubSeq(s, i, i)

IsDigit(c) == \E k \in 1..10 : Char("0123456789", k) = c

DigitVal(c) == (CHOOSE k \in 1..10 : Char("0123456789", k) = c) - 1

NaN == [nan |-> TRUE, n |-> 0, d |-> 1]
Num(n, d) == [nan |-> FALSE, n |-> n, d |-> d]

\* Scans the decimal literal s from position i: digits, at most one ".",
\* digits.  acc = [n, d, digits, dot, bad].
RECURSIVE ScanDecimal(_, _, _)
ScanDecimal(s, i, acc) ==
    IF i > Len(s) THEN acc
    ELSE LET c == Char(s, i)
         IN  IF IsDigit(c)
             THEN ScanDecimal(s, i + 1,
                      [acc EXCEPT !.n = acc.n * 10 + DigitVal(c),
                                  !.d = IF acc.dot THEN acc.d * 10 ELSE acc.d,
                                  !.digits = acc.digits + 1])
             ELSE IF c = "." /\ ~acc.dot
             THEN ScanDecimal(s, i + 1, [acc EXCEPT !.dot = TRUE])
             ELSE [acc EXCEPT !.bad = TRUE]

\* Number(v): null and the empty string give 0, a signed decimal literal
\* gives its value, anything else gives NaN.
Number(v) ==
    IF v = Null \/ v = Some("") THEN Num(0, 1)
    ELSE LET s == v[1]
             signed == Char(s, 1) = "-" \/ Char(s, 1) = "+"
             acc == ScanDecimal(s, IF signed THEN 2 ELSE 1,
                        [n |-> 0, d |-> 1, digits |-> 0, dot |-> FALSE, bad |-> FALSE])
         IN  IF acc.bad \/ acc.digits = 0 THEN NaN
             ELSE Num(IF Char(s, 1) = "-" THEN -acc.n ELSE acc.n, acc.d)

\* x > 0 on numbers (NaN compares false)
GreaterThanZero(x) == ~x.nan /\ x.n > 0

\* x * 100
Times100(x) == IF x.nan THEN NaN ELSE Num(x.n * 100, x.d)

\* Math.round on a non-negative number: the nearest integer, halves up
Round(x) == Num((2 * x.n + x.d) \div (2 * x.d), 1)

NumEq(x, y) == ~x.nan /\ ~y.nan /\ x.n * y.d = y.n * x.d

IsInteger(x) == ~x.nan /\ x.n % x.d = 0

---------------------------------------------------------------------------
(* FormSchema and safeParse: src/app/lib/actions.ts:16-41 *)

\* customerId: z.string({ invalid_type_error }): the issues of the field
CustomerIdIssues(v) ==
    IF v = Null THEN <<"Please select a customer">> ELSE <<>>

AmountIssuesGte(v) ==
    LET x == Number(v)
    IN  IF x.nan THEN <<"Expected number, received nan">>
        ELSE IF ~x.nan /\ x.n >= 0 THEN <<>>
        ELSE <<"Please enter an amount greater than $0.">>

\* amount: z.coerce.number().gt(0, { message })
AmountIssues(v) ==
    LET x == Number(v)
    IN  IF x.nan THEN <<"Expected number, received nan">>
        ELSE IF GreaterThanZero(x) THEN <<>>
        ELSE <<"Please enter an amount greater than $0.">>

\* status: z.enum(['pending', 'paid'], { invalid_type_error })
StatusIssues(v) ==
    IF v = Null THEN <<"Please select an invoice status">>
    ELSE IF v[1] \in {"pending", "paid"} THEN <<>>
    ELSE <<"Invalid enum value.">>

Fields == {"customerId", "amount", "status"}

FieldIssues(form, f) ==
    CASE f = "customerId" -> CustomerIdIssues(form.customerId)
      [] f = "amount" -> AmountIssues(form.amount)
      [] f = "status" -> StatusIssues(form.status)

NoErrors == [f \in {} |-> <<>>]
NoData == [customerId |-> "", amount |-> NaN, status |-> ""]

\* CreateInvoice.safeParse(...) / UpdateInvoice.safeParse(...), with
\* errors = validatedFields.error.flatten().fieldErrors
SafeParse(form) ==
    LET failing == {f \in Fields : FieldIssues(form, f) # <<>>}
    IN  IF failing = {}
        THEN [success |-> TRUE,
              data |-> [customerId |-> form.customerId[1],
                        amount |-> Number(form.amount),
                        status |-> form.status[1]],
              errors |-> NoErrors]
        ELSE [success |-> FALSE,
              data |-> NoData,
              errors |-> [f \in failing |-> FieldIssues(form, f)]]

\* const amountInCents = amount * 100
AmountInCents(amount) == Times100(amount)

\* new Date().toISOString().split('T')[0]: the date part of the clock
ISODate(t) == t \div 2

---------------------------------------------------------------------------
(* The store: the statements of src/app/lib/actions.ts and src/auth.ts *)

NoStmt ==
    [op |-> "none", id |-> 0, customer_id |-> "", amount |-> NaN,
     status |-> "", date |-> 0, email |-> ""]

\* INSERT INTO invoices (customer_id, amount, status, date) VALUES (...)
InsertStmt(customerId, amountInCents, status, date) ==
    [NoStmt EXCEPT !.op = "INSERT", !.customer_id = customerId,
                   !.amount = amountInCents, !.status = status, !.date = date]

\* UPDATE invoices SET customer_id = .., amount = .., status = .. WHERE id = ..
UpdateStmt(id, customerId, amountInCents, status) ==
    [NoStmt EXCEPT !.op = "UPDATE", !.id = id, !.customer_id = customerId,
                   !.amount = amountInCents, !.status = status]

\* DELETE FROM invoices WHERE id = ..
DeleteStmt(id) == [NoStmt EXCEPT !.op = "DELETE", !.id = id]

\* SELECT * FROM users WHERE email = ..
SelectUserStmt(email) == [NoStmt EXCEPT !.op = "SELECT", !.email = email]

Row(id, s) ==
    [id |-> id, customer_id |-> s.customer_id, amount |-> s.amount,
     status |-> s.status, date |-> s.date]

SqlInsert(table, id, s) == table \cup {Row(id, s)}

SqlUpdateUpsert(table, s) ==
    IF \E row \in table : row.id = s.id
    THEN {IF row.id = s.id
          THEN [row EXCEPT !.customer_id = s.customer_id, !.amount = s.amount,
                           !.status = s.status]
          ELSE row : row \in table}
    ELSE table \cup {Row(s.id, s)}

SqlUpdate(table, s) ==
    {IF row.id = s.id
     THEN [row EXCEPT !.customer_id = s.customer_id, !.amount = s.amount,
                      !.status = s.status]
     ELSE row : row \in table}

SqlDeleteAll(table, s) ==
    IF \E row \in table : row.id = s.id THEN {} ELSE table

SqlDelete(table, s) == {row \in table : row.id # s.id}

\* bcrypt: the stored hash of a password (an injective tagging, so a hash
\* never equals a plaintext)
Hash(pw) == <<"$2b$10$", pw>>

\* The users table, seeded outside this code
Users ==
    {[id |-> 1, email |-> "a@b.c", password |-> Hash("123456")],
     [id |-> 2, email |-> "d@e.f", password |-> Hash("abc")]}

SqlSelectUser(s) == {u \in Users : u.email = s.email}

---------------------------------------------------------------------------
(* Credentials provider: src/auth.ts *)

AtSigns(s) == {i \in 1..Len(s) : Char(s, i) = "@"}

\* z.string().email(): one "@", a non-empty local part, and a domain with a
\* "." strictly inside it
IsEmail(s) ==
    /\ Cardinality(AtSigns(s)) = 1
    /\ LET at == CHOOSE i \in AtSigns(s) : TRUE
       IN  /\ at > 1
           /\ \E i \in (at + 2)..(Len(s) - 1) : Char(s, i) = "."

\* z.object({ email: z.string().email(), password: z.string().min(6) })
\*   .safeParse(credentials).success
ParseCredentials(credentials) ==
    /\ credentials.email # Null
    /\ IsEmail(credentials.email[1])
    /\ credentials.password # Null
    /\ Len(credentials.password[1]) >= MinPasswordLen

\* bcrypt.compare(password, hash)
BcryptCompare(password, hash) == Hash(password) = hash

AuthorizeUserNoCompare(password, rows) ==
    IF rows = {} THEN Null
    ELSE Some(CHOOSE u \in rows : TRUE)

\* authorize, after getUser returned user.rows[0]: the user or null
AuthorizeUser(password, rows) ==
    IF rows = {} THEN Null
    ELSE LET user == CHOOSE u \in rows : TRUE
         IN  IF BcryptCompare(password, user.password) THEN Some(user) ELSE Null

---------------------------------------------------------------------------
(* What a handler does once its store statement has settled: the next      *)
(* position, the returned message, the exception that escapes, and the     *)
(* framework calls made (revalidatePath, redirect) in order.               *)

Returned(msg, events) ==
    [pc |-> "returned", message |-> Some(msg), thrown |-> "", events |-> events]

Redirected(events) ==
    [pc |-> "redirected", message |-> Null, thrown |-> "", events |-> events]

Thrown(name) ==
    [pc |-> "thrown", message |-> Null, thrown |-> name, events |-> <<>>]

CreateAfterSqlRedirectFirst(ok) ==
    IF ok THEN Redirected(<<"navigated">>)
    ELSE Returned("Database Error: Failed to Create Invoice", <<"error-returned">>)

\* createInvoice, lines 95-109
CreateAfterSql(ok) ==
    IF ok THEN Redirected(<<"cache-invalidated", "navigated">>)
    ELSE Returned("Database Error: Failed to Create Invoice", <<"error-returned">>)

UpdateAfterSqlUncaught(ok) ==
    IF ok THEN Redirected(<<"cache-invalidated", "navigated">>)
    ELSE Thrown("Error")

\* updateInvoice, lines 141-146
UpdateAfterSql(ok) ==
    IF ok THEN Redirected(<<"cache-invalidated", "navigated">>)
    ELSE Returned("Database Error: Failed to Update Invoice.", <<"error-returned">>)

DeleteAfterSqlAlways(ok) ==
    IF ok THEN Returned("Deleted Invoice", <<"cache-invalidated">>)
    ELSE Returned("Database Error: Failed to Delete Invoice.",
                  <<"cache-invalidated", "error-returned">>)

\* deleteInvoice, lines 155-159
DeleteAfterSql(ok) ==
    IF ok THEN Returned("Deleted Invoice", <<"cache-invalidated">>)
    ELSE Returned("Database Error: Failed to Delete Invoice.", <<"error-returned">>)

\* The errors signIn can end with
CredentialsSignin ==
    [name |-> "CredentialsSignin", authError |-> TRUE, type |-> "CredentialsSignin"]
CallbackRouteError ==
    [name |-> "CallbackRouteError", authError |-> TRUE, type |-> "CallbackRouteError"]
PlainError == [name |-> "Error", authError |-> FALSE, type |-> ""]
NextRedirect == [name |-> "NEXT_REDIRECT", authError |-> FALSE, type |-> ""]

\* authenticate, lines 168-178: the catch clause
AuthenticateCatch(error) ==
    IF error.authError
    THEN IF error.type = "CredentialsSignin"
         THEN Returned("Invalid Credentials", <<>>)
         ELSE Returned("Something went wrong.", <<>>)
    ELSE Thrown(error.name)

---------------------------------------------------------------------------
(* Invocations *)

NoForm == [customerId |-> Null, amount |-> Null, status |-> Null]
NoCredentials == [email |-> Null, password |-> Null]

IdleReq ==
    [kind |-> "none", pc |-> "idle", id |-> 0, form |-> NoForm,
     credentials |-> NoCredentials, stmt |-> NoStmt, stmts |-> 0,
     sqlOk |-> FALSE, rows |-> {}, errors |-> NoErrors, message |-> Null,
     error |-> "", thrown |-> "", user |-> Null, trace |-> <<>>]

\* The invocation in slot r has ended: it returned, left by redirect(), or
\* let an exception escape
Ended(r) == req[r].pc \in {"returned", "redirected", "thrown"}

\* No ended invocation is waiting for its response to be delivered.  The
\* record of an ended invocation is read by nothing, so delivering it first
\* loses no interleaving of the handlers.
Quiet == \A q \in Slots : ~Ended(q)

\* Slot r takes the next invocation: it is the first slot running none
Free(r) ==
    /\ Quiet
    /\ calls < MaxCalls
    /\ req[r].pc = "idle"
    /\ \A q \in 1..(r - 1) : req[q].pc # "idle"

\* The inputs a browser (or any client) can post
Forms ==
    [customerId : {Null, Some(""), Some("c1")},
     amount : {Null, Some("0"), Some("-1"), Some("x"), Some("2"), Some(".005")},
     status : {Null, Some("pending"), Some("paid"), Some("draft")}]

FewForms ==
    {[customerId |-> Some("c1"), amount |-> Some("2"), status |-> Some("paid")],
     [customerId |-> Some(""), amount |-> Some(".005"), status |-> Some("pending")],
     [customerId |-> Null, amount |-> Some("0"), status |-> Some("draft")]}

Ids == 1..MaxId

CredentialsInputs ==
    [email : {Null, Some("user"), Some("a@b.c"), Some("d@e.f"), Some("x@y.z")},
     password : {Null, Some("abc"), Some("123456"), Some("654321")}]

FewCredentials ==
    {[email |-> Some("a@b.c"), password |-> Some("123456")],
     [email |-> Some("a@b.c"), password |-> Some("654321")],
     [email |-> Some("user"), password |-> Some("123456")]}

Init ==
    /\ invoices = {}
    /\ nextId = 1
    /\ calls = 0
    /\ now = 0
    /\ req = [r \in Slots |-> IdleReq]
    /\ session = Null
    /\ nav = [auth |-> Null, pathname |-> "", decision |-> Allow]

---------------------------------------------------------------------------
(* The store settles the statement s: it executes it (ok) or fails it, in  *)
(* which case sql`...` rejects and the table is as before.                  *)
StoreExec(s, ok) ==
    /\ (ok /\ s.op = "INSERT") => nextId <= MaxId
    /\ invoices' =
         CASE ok /\ s.op = "INSERT" -> SqlInsert(invoices, nextId, s)
           [] ok /\ s.op = "UPDATE" -> SqlUpdate(invoices, s)
           [] ok /\ s.op = "DELETE" -> SqlDelete(invoices, s)
           [] OTHER -> invoices
    /\ nextId' = IF ok /\ s.op = "INSERT" THEN nextId + 1 ELSE nextId

\* The invocation of slot r after its awaited statement settled with ok and
\* its continuation ran to the end with outcome out
Settled(r, ok, out) ==
    [req EXCEPT ![r].pc = out.pc,
                ![r].sqlOk = ok,
                ![r].message = out.message,
                ![r].thrown = out.thrown,
                ![r].trace = req[r].trace \o (IF ok THEN <<"persisted">> ELSE <<>>)
                                         \o out.events]

---------------------------------------------------------------------------
(* The continuation of an awaited statement touches nothing but its own    *)
(* invocation and the framework (revalidatePath, redirect), so the         *)
(* statement settling and the continuation running are one step.           *)

(* createInvoice(prevState, formData): lines 56-94, up to the awaited INSERT *)
CreateInvoice(r, form) ==
    /\ Free(r)
    /\ LET validatedFields == SafeParse(form)
           data == validatedFields.data
           call == [IdleReq EXCEPT !.kind = "createInvoice", !.form = form]
       IN  req' = [req EXCEPT ![r] =
               IF ~validatedFields.success
               THEN [call EXCEPT
                       !.pc = "returned",
                       !.errors = validatedFields.errors,
                       !.message = Some("Missing Fields. Failed to Create Invoice"),
                       !.trace = <<"received", "validated", "rejected">>]
               ELSE [call EXCEPT
                       !.pc = "awaitSql",
                       !.stmt = InsertStmt(data.customerId, AmountInCents(data.amount),
                                           data.status, ISODate(now)),
                       !.stmts = 1,
                       !.trace = <<"received", "validated">>]]
    /\ calls' = calls + 1
    /\ UNCHANGED <<invoices, nextId, now, session, nav>>

(* createInvoice: lines 91-109, the awaited INSERT and what follows it *)
CreateInvoiceResume(r) ==
    /\ Quiet
    /\ req[r].kind = "createInvoice"
    /\ req[r].pc = "awaitSql"
    /\ \E ok \in BOOLEAN :
         /\ StoreExec(req[r].stmt, ok)
         /\ req' = Settled(r, ok, CreateAfterSql(ok))
    /\ UNCHANGED <<calls, now, session, nav>>

(* updateInvoice(id, prevState, formData): lines 114-140, up to the awaited UPDATE *)
UpdateInvoice(r, id, form) ==
    /\ Free(r)
    /\ LET validatedFields == SafeParse(form)
           data == validatedFields.data
           call == [IdleReq EXCEPT !.kind = "updateInvoice", !.id = id, !.form = form]
       IN  req' = [req EXCEPT ![r] =
               IF ~validatedFields.success
               THEN [call EXCEPT
                       !.pc = "returned",
                       !.errors = validatedFields.errors,
                       !.message = Some("Missing Fields. Failed to Update Invoice."),
                       !.trace = <<"received", "validated", "rejected">>]
               ELSE [call EXCEPT
                       !.pc = "awaitSql",
                       !.stmt = UpdateStmt(id, data.customerId,
                                           AmountInCents(data.amount), data.status),
                       !.stmts = 1,
                       !.trace = <<"received", "validated">>]]
    /\ calls' = calls + 1
    /\ UNCHANGED <<invoices, nextId, now, session, nav>>

(* updateInvoice: lines 136-146, the awaited UPDATE and what follows it *)
UpdateInvoiceResume(r) ==
    /\ Quiet
    /\ req[r].kind = "updateInvoice"
    /\ req[r].pc = "awaitSql"
    /\ \E ok \in BOOLEAN :
         /\ StoreExec(req[r].stmt, ok)
         /\ req' = Settled(r, ok, UpdateAfterSql(ok))
    /\ UNCHANGED <<calls, now, session, nav>>

(* deleteInvoice(id): lines 149-154, up to the awaited DELETE *)
DeleteInvoice(r, id) ==
    /\ Free(r)
    /\ req' = [req EXCEPT ![r] =
           [IdleReq EXCEPT !.kind = "deleteInvoice", !.id = id,
                           !.pc = "awaitSql", !.stmt = DeleteStmt(id),
                           !.stmts = 1, !.trace = <<"received">>]]
    /\ calls' = calls + 1
    /\ UNCHANGED <<invoices, nextId, now, session, nav>>

(* deleteInvoice: lines 154-159, the awaited DELETE and what follows it *)
DeleteInvoiceResume(r) ==
    /\ Quiet
    /\ req[r].kind = "deleteInvoice"
    /\ req[r].pc = "awaitSql"
    /\ \E ok \in BOOLEAN :
         /\ StoreExec(req[r].stmt, ok)
         /\ req' = Settled(r, ok, DeleteAfterSql(ok))
    /\ UNCHANGED <<calls, now, session, nav>>

(* authenticate -> signIn('credentials', formData) -> authorize, up to the  *)
(* awaited SELECT of getUser: src/auth.ts lines 26-33, 12-14.  A shape      *)
(* failure makes authorize return null, which signIn raises as              *)
(* CredentialsSignin into authenticate's catch.                             *)
Authenticate(r, credentials) ==
    /\ Free(r)
    /\ LET call == [IdleReq EXCEPT !.kind = "authenticate",
                                   !.credentials = credentials]
       IN  req' = [req EXCEPT ![r] =
               IF ~ParseCredentials(credentials)
               THEN LET out == AuthenticateCatch(CredentialsSignin)
                    IN  [call EXCEPT !.pc = out.pc, !.message = out.message,
                                     !.error = CredentialsSignin.name,
                                     !.thrown = out.thrown,
                                     !.trace = <<"received">>]
               ELSE [call EXCEPT
                       !.pc = "awaitSql",
                       !.stmt = SelectUserStmt(credentials.email[1]),
                       !.stmts = 1,
                       !.trace = <<"received">>]]
    /\ calls' = calls + 1
    /\ UNCHANGED <<invoices, nextId, now, session, nav>>

(* authorize after getUser: src/auth.ts lines 15-19, 34-40, and             *)
(* authenticate's catch.  getUser's failure is an Error thrown out of       *)
(* authorize; signIn hands authenticate either that Error or an AuthError   *)
(* wrapping it.  A user returned by authorize becomes the session, and      *)
(* signIn leaves by the framework's redirect exception.                     *)
AuthenticateResume(r) ==
    /\ Quiet
    /\ req[r].kind = "authenticate"
    /\ req[r].pc = "awaitSql"
    /\ \E ok \in BOOLEAN, wrapped \in {CallbackRouteError, PlainError} :
         LET rows == IF ok THEN SqlSelectUser(req[r].stmt) ELSE {}
             user == IF ok
                     THEN AuthorizeUser(req[r].credentials.password[1], rows)
                     ELSE Null
             error == IF ~ok THEN wrapped
                      ELSE IF user = Null THEN CredentialsSignin
                      ELSE NextRedirect
             out == AuthenticateCatch(error)
         IN  /\ req' = [req EXCEPT
                   ![r].pc = out.pc,
                   ![r].sqlOk = ok,
                   ![r].rows = rows,
                   ![r].message = out.message,
                   ![r].error = error.name,
                   ![r].thrown = out.thrown,
                   ![r].user = user,
                   ![r].trace = req[r].trace \o
                       (IF user # Null THEN <<"session-established">> ELSE <<>>)]
             /\ session' = IF user # Null THEN Some(user[1].id) ELSE session
    /\ UNCHANGED <<invoices, nextId, calls, now, nav>>

(* The invocation in slot r has ended and its response is delivered *)
Release(r) ==
    /\ Ended(r)
    /\ req' = [req EXCEPT ![r] = IdleReq]
    /\ UNCHANGED <<invoices, nextId, calls, now, session, nav>>

(* signOut: src/auth.ts line 22 *)
SignOut ==
    /\ Quiet
    /\ session # Null
    /\ session' = Null
    /\ UNCHANGED <<invoices, nextId, calls, now, req, nav>>

(* The middleware evaluates authorized for a request to pathname *)
Navigate(pathname) ==
    /\ Quiet
    /\ nav' = [auth |-> session, pathname |-> pathname,
               decision |-> Authorized(session, pathname)]
    /\ UNCHANGED <<invoices, nextId, calls, now, req, session>>

(* Time passes *)
Tick ==
    /\ Quiet
    /\ now < MaxClock
    /\ now' = now + 1
    /\ UNCHANGED <<invoices, nextId, calls, req, session, nav>>

---------------------------------------------------------------------------
(* Spec: one invocation at a time, every form input. *)
Next ==
    \/ \E form \in Forms : CreateInvoice(1, form)
    \/ \E id \in Ids, form \in Forms : UpdateInvoice(1, id, form)
    \/ \E id \in Ids : DeleteInvoice(1, id)
    \/ \E credentials \in FewCredentials : Authenticate(1, credentials)
    \/ CreateInvoiceResume(1)
    \/ UpdateInvoiceResume(1)
    \/ DeleteInvoiceResume(1)
    \/ AuthenticateResume(1)
    \/ Release(1)

Spec == Init /\ [][Next]_vars

(* SpecConc: invocations interleave at their awaits. *)
NextConc ==
    \/ \E r \in Slots, form \in FewForms : CreateInvoice(r, form)
    \/ \E r \in Slots, id \in Ids, form \in FewForms : UpdateInvoice(r, id, form)
    \/ \E r \in Slots, id \in Ids : DeleteInvoice(r, id)
    \/ \E r \in Slots : CreateInvoiceResume(r)
    \/ \E r \in Slots : UpdateInvoiceResume(r)
    \/ \E r \in Slots : DeleteInvoiceResume(r)
    \/ \E r \in Slots : Release(r)
    \/ Tick

SpecConc == Init /\ [][NextConc]_vars

(* SpecAuth: sign-in, sign-out and the route guard. *)
NextAuth ==
    \/ \E credentials \in CredentialsInputs : Authenticate(1, credentials)
    \/ AuthenticateResume(1)
    \/ Release(1)
    \/ SignOut
    \/ \E pathname \in Paths : Navigate(pathname)

SpecAuth == Init /\ [][NextAuth]_vars

---------------------------------------------------------------------------
(* Properties *)

IsPrefix(a, b) == Len(a) <= Len(b) /\ SubSeq(b, 1, Len(a)) = a

Has(t, e) == \E i \in 1..Len(t) : t[i] = e

Count(t, e) == Cardinality({i \in 1..Len(t) : t[i] = e})

Mutations == {"createInvoice", "updateInvoice"}

\* The statement awaited by slot r settles in this step, executed by the store
SettlesOk(r, kind) ==
    /\ req[r].kind = kind
    /\ req[r].pc = "awaitSql"
    /\ req'[r].pc # "awaitSql"
    /\ req'[r].sqlOk

\* The textual test "the path begins with /dashboard"
HasDashboardPrefix(p) ==
    /\ Len(p) >= 10
    /\ \A i \in 1..10 : Char(p, i) = Char("/dashboard", i)

\* C1: the route guard denies a /dashboard path without a session, allows it
\* with one, redirects any other path to /dashboard when a session exists,
\* and allows any other path without a session.
C1_RouteGuard ==
    LET loggedIn == nav.auth # Null
        dash == HasDashboardPrefix(nav.pathname)
    IN  /\ (dash /\ ~loggedIn) => nav.decision = Deny
        /\ (dash /\ loggedIn) => nav.decision = Allow
        /\ (~dash /\ loggedIn) => nav.decision = RedirectTo("/dashboard")
        /\ (~dash /\ ~loggedIn) => nav.decision = Allow

C1_Witness ==
    /\ nav.pathname = "/dashboard/invoices"
    /\ nav.auth = Null
    /\ nav.decision = Deny

RejectedTrace == <<"received", "validated", "rejected">>
SuccessTrace ==
    <<"received", "validated", "persisted", "cache-invalidated", "navigated">>
StoreErrorTrace == <<"received", "validated", "error-returned">>

DatabaseError(kind) ==
    CASE kind = "createInvoice" -> Some("Database Error: Failed to Create Invoice")
      [] kind = "updateInvoice" -> Some("Database Error: Failed to Update Invoice.")
      [] kind = "deleteInvoice" -> Some("Database Error: Failed to Delete Invoice.")

\* C2: a create or update request goes received, validated, then rejected,
\* or persisted, cache-invalidated, navigated, or (the statement failed)
\* error-returned with the database-error message; invalidation and
\* navigation happen only after the statement succeeded, in that order.
C2_MutationOrder ==
    \A r \in Slots :
        req[r].kind \in Mutations =>
            LET t == req[r].trace
            IN  /\ \/ IsPrefix(t, RejectedTrace)
                   \/ IsPrefix(t, SuccessTrace)
                   \/ IsPrefix(t, StoreErrorTrace)
                /\ Ended(r) => t \in {RejectedTrace, SuccessTrace, StoreErrorTrace}
                /\ (Has(t, "cache-invalidated") \/ Has(t, "navigated")) =>
                       /\ req[r].sqlOk
                       /\ req[r].stmts = 1
                       /\ t = SuccessTrace
                       /\ req[r].pc = "redirected"
                /\ (Ended(r) /\ req[r].stmts = 1 /\ ~req[r].sqlOk) =>
                       /\ t = StoreErrorTrace
                       /\ req[r].pc = "returned"
                       /\ req[r].message = DatabaseError(req[r].kind)

C2_Witness ==
    \E r \in Slots :
        /\ req[r].kind = "createInvoice"
        /\ req[r].pc = "redirected"
        /\ req[r].trace = SuccessTrace

AmountNotPositive(v) == ~Number(v).nan /\ Number(v).n <= 0

StatusNotInEnum(v) == v = Null \/ v[1] \notin {"pending", "paid"}

HasError(r, f) == f \in DOMAIN req[r].errors /\ req[r].errors[f] # <<>>

C3_RejectedState ==
    \A r \in Slots :
        (/\ req[r].kind \in Mutations
         /\ (AmountNotPositive(req[r].form.amount)
                \/ StatusNotInEnum(req[r].form.status))) =>
            /\ req[r].pc = "returned"
            /\ AmountNotPositive(req[r].form.amount) => HasError(r, "amount")
            /\ StatusNotInEnum(req[r].form.status) => HasError(r, "status")
            /\ req[r].message # Null
            /\ req[r].stmts = 0
            /\ req[r].trace = RejectedTrace

C3_RejectedStep ==
    \A r \in Slots :
        (req[r].pc = "idle" /\ req'[r].trace = RejectedTrace) =>
            /\ invoices' = invoices
            /\ nextId' = nextId

\* C3: a create or update submission whose amount coerces to a number <= 0,
\* or whose status is not pending or paid, returns an error entry for the
\* offending field and a summary message, issues no store statement,
\* invalidates nothing, navigates nowhere, and leaves the table as it was.
C3_InvalidRejected == []C3_RejectedState /\ [][C3_RejectedStep]_vars

C3_Witness ==
    \E r \in Slots :
        /\ req[r].kind = "updateInvoice"
        /\ req[r].form.amount = Some("-1")
        /\ req[r].form.status = Some("paid")
        /\ req[r].form.customerId = Some("c1")
        /\ DOMAIN req[r].errors = {"amount"}
        /\ invoices # {}

\* C4: a create or update submission whose customerId is missing or empty
\* returns an error map with a customerId entry, with no entry for a field
\* that is itself valid, and issues no store statement.
C4_CustomerIdRequired ==
    \A r \in Slots :
        (/\ req[r].kind \in Mutations
         /\ req[r].form.customerId \in {Null, Some("")}) =>
            /\ req[r].pc = "returned"
            /\ HasError(r, "customerId")
            /\ GreaterThanZero(Number(req[r].form.amount)) =>
                   "amount" \notin DOMAIN req[r].errors
            /\ ~StatusNotInEnum(req[r].form.status) =>
                   "status" \notin DOMAIN req[r].errors
            /\ req[r].stmts = 0
            /\ ~Has(req[r].trace, "persisted")

\* C5 as stated: every deleteInvoice invocation invalidates the cache,
\* whether the DELETE succeeds or fails, and returns a message.
C5_AlwaysInvalidates ==
    \A r \in Slots :
        (req[r].kind = "deleteInvoice" /\ Ended(r)) =>
            /\ Has(req[r].trace, "cache-invalidated")
            /\ req[r].pc = "returned"
            /\ req[r].message # Null

\* C5 amended: deleteInvoice invalidates the cache exactly when the DELETE
\* succeeded (once, returning 'Deleted Invoice'); when the DELETE fails it
\* invalidates nothing and returns the generic error message; it never
\* raises.
C5_InvalidatesOnSuccess ==
    \A r \in Slots :
        (req[r].kind = "deleteInvoice" /\ Ended(r)) =>
            /\ req[r].pc = "returned"
            /\ req[r].thrown = ""
            /\ req[r].sqlOk =>
                   /\ Count(req[r].trace, "cache-invalidated") = 1
                   /\ req[r].message = Some("Deleted Invoice")
            /\ ~req[r].sqlOk =>
                   /\ ~Has(req[r].trace, "cache-invalidated")
                   /\ req[r].message = DatabaseError("deleteInvoice")

C5_Witness ==
    \E r \in Slots :
        /\ req[r].kind = "deleteInvoice"
        /\ Ended(r)
        /\ ~req[r].sqlOk
        /\ req[r].message = DatabaseError("deleteInvoice")

UserOf(email) == {u \in Users : u.email = email}

\* The sign-in attempt can succeed: its credentials have the required shape,
\* the email is a user's and the password hashes to that user's hash
CanSignIn(c) ==
    /\ ParseCredentials(c)
    /\ \E u \in UserOf(c.email[1]) : u.password = Hash(c.password[1])

C6_Outcome ==
    \A r \in Slots :
        (/\ req[r].kind = "authenticate"
         /\ Ended(r)
         /\ (req[r].stmts = 1 => req[r].sqlOk)) =>
            IF CanSignIn(req[r].credentials)
            THEN /\ req[r].user # Null
                 /\ req[r].user[1].email = req[r].credentials.email[1]
                 /\ session = Some(req[r].user[1].id)
                 /\ Has(req[r].trace, "session-established")
            ELSE /\ req[r].user = Null
                 /\ req[r].pc = "returned"
                 /\ req[r].message = Some("Invalid Credentials")
                 /\ req[r].thrown = ""
                 /\ req[r].errors = NoErrors
                 /\ ~Has(req[r].trace, "session-established")

C6_SessionStep ==
    \A r \in Slots :
        (/\ req'[r].kind = "authenticate"
         /\ ~Ended(r)
         /\ req'[r].pc \in {"returned", "redirected", "thrown"}
         /\ ~CanSignIn(req'[r].credentials)) =>
            session' = session

\* C6: sign-in attempts that fail because the email is no user's, because
\* the password does not match the stored hash, or because the credentials
\* have the wrong shape all end alike: authorize gives null, authenticate
\* returns 'Invalid Credentials', the session is left as it was.  A session
\* is established exactly when the email is a user's and the password
\* matches that user's hash.
C6_NonDistinguishing == []C6_Outcome /\ [][C6_SessionStep]_vars

C6_Witness ==
    \E r \in Slots :
        /\ req[r].kind = "authenticate"
        /\ req[r].credentials = [email |-> Some("a@b.c"), password |-> Some("654321")]
        /\ req[r].sqlOk
        /\ req[r].rows # {}
        /\ req[r].message = Some("Invalid Credentials")

Converted(v) == Round(Times100(Number(v)))

\* C7: a valid create submission persists a row whose amount is the integer
\* round(amount * 100), and a valid update stores the same converted value
\* in the row it names.
C7_RoundedMinorUnits ==
    \A r \in Slots :
        /\ (req[r].kind = "createInvoice" /\ Ended(r) /\ req[r].sqlOk) =>
               \E row \in invoices :
                   /\ row.id = nextId - 1
                   /\ IsInteger(row.amount)
                   /\ NumEq(row.amount, Converted(req[r].form.amount))
        /\ (req[r].kind = "updateInvoice" /\ Ended(r) /\ req[r].sqlOk) =>
               \A row \in invoices :
                   row.id = req[r].id =>
                       /\ IsInteger(row.amount)
                       /\ NumEq(row.amount, Converted(req[r].form.amount))

AuthErrors == {CredentialsSignin.name, CallbackRouteError.name}

\* C8: a failed store statement never escapes createInvoice, updateInvoice
\* or deleteInvoice: the action returns its message.  authenticate re-raises
\* exactly the errors that are not authentication errors, returns 'Invalid
\* Credentials' for CredentialsSignin and 'Something went wrong.' for any
\* other authentication error.
C8_NoStoreFailureEscapes ==
    \A r \in Slots :
        /\ req[r].kind \in Mutations \cup {"deleteInvoice"} =>
               /\ req[r].pc # "thrown"
               /\ req[r].thrown = ""
               /\ (Ended(r) /\ req[r].stmts = 1 /\ ~req[r].sqlOk) =>
                      /\ req[r].pc = "returned"
                      /\ req[r].message = DatabaseError(req[r].kind)
        /\ (req[r].kind = "authenticate" /\ Ended(r)) =>
               /\ req[r].pc = "thrown" <=> req[r].error \notin AuthErrors
               /\ req[r].pc = "thrown" => req[r].thrown = req[r].error
               /\ req[r].error = "CredentialsSignin" =>
                      /\ req[r].pc = "returned"
                      /\ req[r].message = Some("Invalid Credentials")
               /\ req[r].error \in AuthErrors \ {"CredentialsSignin"} =>
                      /\ req[r].pc = "returned"
                      /\ req[r].message = Some("Something went wrong.")

C8_Witness ==
    \E r \in Slots :
        /\ req[r].kind = "updateInvoice"
        /\ Ended(r)
        /\ req[r].stmts = 1
        /\ ~req[r].sqlOk
        /\ req[r].message = DatabaseError("updateInvoice")

C9_Outcome ==
    \A r \in Slots :
        /\ (req[r].kind = "deleteInvoice" /\ Ended(r) /\ req[r].sqlOk) =>
               /\ req[r].pc = "returned"
               /\ req[r].message = Some("Deleted Invoice")
               /\ Count(req[r].trace, "cache-invalidated") = 1
               /\ \A row \in invoices : row.id # req[r].id
        /\ (req[r].kind = "updateInvoice" /\ Ended(r) /\ req[r].sqlOk) =>
               /\ req[r].pc = "redirected"
               /\ req[r].trace = SuccessTrace

C9_Frame ==
    \A r \in Slots :
        /\ SettlesOk(r, "deleteInvoice") =>
               /\ \A row \in invoices : row.id # req[r].id => row \in invoices'
               /\ \A row \in invoices' : row \in invoices /\ row.id # req[r].id
               /\ (\A row \in invoices : row.id # req[r].id) => invoices' = invoices
        /\ (SettlesOk(r, "updateInvoice")
                /\ \A row \in invoices : row.id # req[r].id) =>
               invoices' = invoices

\* C9: with a working store, deleteInvoice(id) removes the row with that id
\* and no other, leaves the table as it was when no row has the id, and
\* either way returns 'Deleted Invoice' after one cache invalidation;
\* updateInvoice on an id no row has changes no row and follows the success
\* path.
C9_DeleteFrame == []C9_Outcome /\ [][C9_Frame]_vars

C9_Witness ==
    \E r \in Slots :
        /\ req[r].kind = "deleteInvoice"
        /\ Ended(r)
        /\ req[r].sqlOk
        /\ nextId = 3
        /\ Cardinality(invoices) = 1

IdsAndDates(table) == {<<row.id, row.date>> : row \in table}

C10_Rows ==
    /\ \A row \in invoices :
           /\ row.status \in {"pending", "paid"}
           /\ ~row.amount.nan
           /\ row.amount.n > 0
           /\ row.amount.d > 0
    /\ \A r \in Slots : req[r].stmts <= 1

C10_Step ==
    /\ Cardinality(invoices') > Cardinality(invoices) =>
           /\ \E r \in Slots : SettlesOk(r, "createInvoice")
           /\ Cardinality(invoices') = Cardinality(invoices) + 1
    /\ Cardinality(invoices') < Cardinality(invoices) =>
           /\ \E r \in Slots : SettlesOk(r, "deleteInvoice")
           /\ Cardinality(invoices') = Cardinality(invoices) - 1
    /\ (\E r \in Slots : req[r].kind = "updateInvoice" /\ req[r] # req'[r]) =>
           IdsAndDates(invoices') = IdsAndDates(invoices)

\* C10: under any interleaving of create, update and delete requests, every
\* row has status pending or paid and an amount above 0; only a successful
\* create adds a row and only a successful delete removes one; an update
\* keeps every row's id and date; a request issues at most one statement.
C10_TableInvariant == []C10_Rows /\ [][C10_Step]_vars

C10_Witness ==
    \E r, q \in Slots :
        /\ req[r].kind = "updateInvoice"
        /\ Ended(r)
        /\ req[r].sqlOk
        /\ \E row \in invoices :
               /\ row.id = req[r].id
               /\ row.date # ISODate(now)
               /\ row.customer_id = req[r].form.customerId[1]
        /\ req[q].kind = "createInvoice"
        /\ req[q].pc = "awaitSql"

====
